---- MODULE Spec2Model ----
(***************************************************************************)
(* Model of the XBURN indexer's per-chain indexing engine                  *)
(* (src/src/indexer/chain-indexer.ts): ChainIndexer.start, stop,           *)
(* indexLoop, processBatch, processEvents, together with the chains        *)
(* watermark column and the per-chain event tables of schema.sql           *)
(* (specification Spec; StartSpec adds start() on a running indexer and    *)
(* endpoints that fail validateChainConfig); of the endpoint pool          *)
(* RPCProvider of src/src/config.ts (specification ProviderSpec); of       *)
(* IndexerManager.start, stop and the signal handlers of src/src/index.ts  *)
(* (specification ManagerSpec); of IndexerHealthMonitor of                 *)
(* src/src/indexer/health.ts (specification MonitorSpec); of the           *)
(* blockTimestampCache of chain-indexer.ts (specification CacheSpec); and  *)
(* of the transaction of processEvents with update_user_stats of           *)
(* schema.sql (specification StoreSpec).  FairSpec is the indexer with     *)
(* the fairness of its timers and awaited operations, in an environment    *)
(* that may stop failing.                                                  *)
(***************************************************************************)
EXTENDS Integers, Sequences, FiniteSets, TLC

VARIABLES
    cfgStartBlock,       \* chainConfig.startBlock
    cfgBatchSize,        \* this._batchSize
    running,             \* ChainIndexer.running
    stopRequested,       \* ChainIndexer.stopRequested
    lastProcessedBlock,  \* ChainIndexer.lastProcessedBlock (NULL = null)
    dbWatermark,         \* chains.last_indexed_block (NULL = SQL NULL)
    tables,              \* chain_<id>_<variant> tables: variant -> sequence of rows
    pc,                  \* position of the start()/indexLoop() task
    latestBlock,         \* indexLoop: latestBlock of the iteration in progress
    batchStart,          \* processBatch: startBlock parameter
    batchEnd,            \* processBatch: endBlock parameter
    retryCount,          \* processBatch: retryCount parameter
    delay,               \* exponentialBackoff: delay of the sleep in progress (0 = none)
    stopCaller,          \* position of the caller of stop(): "none" or "polling"
    sessionBatches,      \* history: a batch has been processed since start()
    sessionWrites,       \* history: a watermark UPDATE has committed since start()
    failedRange,         \* history: range of the iteration that last ended in the catch block, if no batch was processed since
    maxIndexed,          \* history: highest block ever covered by a successful batch
    rewound,             \* history: an UPDATE since start() lowered chains.last_indexed_block
    doneAfterStop,       \* history: a batch has completed since stop() set the flag
    contractsDeployed,   \* the three contract addresses hold code on the endpoint's chain
    endpointChain,       \* the chain the endpoint serves: the configured one or another
    validation,          \* validateChainConfig(): currentBlock of the start() in progress (NULL = none)
    startIgnored,        \* history: the last step was a start() that returned at the running test
    loops,               \* indexLoop() chains alive: an iteration in flight or a re-arming timer pending
    covered,             \* history: the blocks of the batches that completed
    firstScanned,        \* history: first block of the first batch since start() (NULL = none yet)
    prevEnd,             \* history: last block of the batch that completed last since start() (NULL = none)
    stable,              \* from now on queries and storage operations succeed and stop() is not called
    observed,            \* history: the height the last getBlockNumber() of the loop returned since then
    indexingPerformance, \* indexing_performance table: the rows written
    currentProviderUrl,  \* RPCProvider.currentProviderUrl
    providerHealth,      \* RPCProvider.providerHealth: url -> isHealthy, failureCount, latency
    sinceSwitch,         \* Date.now() - RPCProvider.lastProviderSwitch, saturated at minProviderSwitchInterval
    rounds,              \* checkProvidersHealth() calls in progress: how many are probing url number i
    lastError,           \* history: error of the last probe that ended (NoError = it succeeded)
    switched,            \* history: switchProvider() has changed the active endpoint
    hasConfig,           \* chains[chainKey] is defined, per enabled chain
    mgrPc,               \* position of IndexerManager.start()
    mgrIndex,            \* IndexerManager.start(): the chain of the loop iteration in progress
    chainStatus,         \* per enabled chain: how far start() has brought it
    indexers,            \* IndexerManager.indexers: per chain, the ChainIndexer's running, stopRequested, loop position and whether its batch is a retry
    healthMonitorTimer,  \* IndexerHealthMonitor.healthCheckInterval is armed
    dbsEnded,            \* IndexerManager.dbs: the chains whose pool has been ended
    stopPc,              \* position of IndexerManager.stop()
    stopIndex,           \* IndexerManager.stop(): the chain of the loop iteration in progress
    stopTarget,          \* the IndexerManager instance the signal handler called stop() on
    reported,            \* history: per chain, what running was when stop() returned on its indexer
    lateWrite,           \* history: a batch or watermark write has committed on an ended pool
    chainHealth,         \* chain_health table: per chain, the row (NoRow = none)
    lastIndexedBlocks,   \* chains.last_indexed_block, per monitored chain
    checkPc,             \* position of IndexerHealthMonitor.checkAllChains()
    checkIndex,          \* checkAllChains(): the chain of the loop iteration in progress
    checkUrl,            \* checkChainHealth(): currentRpcUrlForHealthCheck
    checkLatest,         \* checkChainHealth(): latestBlock
    checkLatency,        \* checkChainHealth(): rpcLatencyMs
    checkError,          \* checkChainHealth(): errorMessage of the catch block
    checked,             \* history: the chains checkChainHealth() was called on in this tick
    blockTimestampCache, \* the module's blockTimestampCache: block number -> timestamp
    recordTimestamps,    \* per chain and block: the block_timestamp of the Event Records written
    userStats,           \* chain_<id>_user_stats: user -> totals (all zero = no row)
    eventLogRows,        \* event_processing_log: number of rows
    chainStatsRows,      \* chain_<id>_chain_stats: number of rows
    txRange,             \* processBatch(): the range of the call that ended last (NoRange = none)
    txOutcome            \* processEvents(): how that call ended

poolVars == <<currentProviderUrl, providerHealth, sinceSwitch, rounds, lastError, switched>>

shutdownVars == <<healthMonitorTimer, dbsEnded, stopPc, stopIndex, stopTarget, reported,
                  lateWrite>>

managerVars == <<hasConfig, mgrPc, mgrIndex, chainStatus, indexers, shutdownVars>>

monitorVars == <<chainHealth, lastIndexedBlocks, checkPc, checkIndex, checkUrl, checkLatest,
                 checkLatency, checkError, checked>>

cacheVars == <<blockTimestampCache, recordTimestamps>>

storeVars == <<userStats, eventLogRows, chainStatsRows, txRange, txOutcome>>

indexerVars == <<cfgStartBlock, cfgBatchSize, running, stopRequested, lastProcessedBlock,
                 dbWatermark, tables, pc, latestBlock, batchStart, batchEnd, retryCount,
                 delay, stopCaller, sessionBatches, sessionWrites, failedRange, maxIndexed,
                 rewound, doneAfterStop, contractsDeployed, endpointChain, validation,
                 startIgnored, indexingPerformance, loops, covered, firstScanned, prevEnd,
                 stable, observed>>

vars == <<cfgStartBlock, cfgBatchSize, running, stopRequested, lastProcessedBlock,
          dbWatermark, tables, pc, latestBlock, batchStart, batchEnd, retryCount,
          delay, stopCaller, sessionBatches, sessionWrites, failedRange, maxIndexed,
          rewound, doneAfterStop, contractsDeployed, endpointChain, validation,
          startIgnored, indexingPerformance, loops, covered, firstScanned, prevEnd,
          stable, observed, poolVars, managerVars, monitorVars, cacheVars, storeVars>>

nonIndexerVars == <<poolVars, managerVars, monitorVars, cacheVars, storeVars>>

nonPoolVars == <<indexerVars, managerVars, monitorVars, cacheVars, storeVars>>

nonManagerVars == <<indexerVars, poolVars, monitorVars, cacheVars, storeVars>>

----------------------------------------------------------------------------
(* Bounds of the model *)

MaxHeight == 24

\* stored failure counts saturate here (the code compares them with the ceiling only)
MaxFailureCount == 5

\* probe rounds that may be in progress at once
MaxRounds == 2

\* granularity of the clock, in ms
TickMs == 5000

\* enabled chains
NumChains == 3

\* transactions of processEvents() that may commit
MaxCommits == 3

\* chains the Health Monitor checks
NumMonitored == 2

(* Program constants *)

REORG_DEPTH == 20

MAX_RETRIES == 10

ConfigMaxRetries == 5

retryDelay == 5000

maxBackoffDelay == 60000

minProviderSwitchInterval == 10000

NULL == 0 - 1

NoRange == <<>>

NoError == {"ok"}

----------------------------------------------------------------------------
(* Inputs *)

\* chain heights an endpoint may report to getBlockNumber()
Heights == {MaxHeight \div 4, MaxHeight \div 2, MaxHeight - 1, MaxHeight}

\* configured start blocks and batch sizes of the modelled chains
StartBlocks == {2, 10}

BatchSizes == {3, 30}

\* An error message is modelled by the set of marker substrings it contains.
ErrorMessages ==
    { {"rate limit", "exceeded"}, {"timeout"}, {"ECONNREFUSED"}, {} }

\* chainConfig.rpcUrls of the modelled chain, in configured order
Urls == <<"rpc1", "rpc2", "rpc3">>

\* messages of the errors a probe may throw
ProbeErrors == { {"ECONNREFUSED"}, {} }

\* the chain the endpoint serves: the chain of the configuration or another one
EndpointChains == {"configured", "other"}

\* heights the Health Monitor's getBlockNumber() may return
MonitorHeights == {MaxHeight \div 2, MaxHeight}

\* the watermark an indexer has persisted once it has indexed
IndexedUpTo == MaxHeight \div 4

\* messages of the errors a health check may catch
HealthErrors == {"timeout", "Unknown error"}

\* block numbers that hold events on every chain
CachedBlocks == {3, 11}

\* block.timestamp of block b on chain c, in seconds
ChainTime(c, b) == 1000 * c + b

\* Math.floor(Date.now() / 1000) when a record is written
Now == 9999

\* first and last blocks of the batches processBatch() may be called with
\* args.value, args.amount or args.xenAmount of a log
ArgAmount(e) == 10 * e.blockNumber

\* latencies a successful probe may measure, in ms
Latencies == {50, 200}

Variants == {"xen_burns", "burn_nft_positions", "swap_burns", "liquidity_added"}

\* The logs the chain holds, in block order (what queryFilter can return).
ChainLog ==
    << [address |-> "xen",         eventName |-> "Transfer",        blockNumber |-> 3,
        transactionHash |-> "0xa1", to |-> "xburnMinter", user |-> "u1"],
       [address |-> "xburnMinter", eventName |-> "XENBurned",       blockNumber |-> 3,
        transactionHash |-> "0xa1", to |-> "none",        user |-> "u1"],
       [address |-> "xen",         eventName |-> "Transfer",        blockNumber |-> 7,
        transactionHash |-> "0xa2", to |-> "other",       user |-> "u2"],
       [address |-> "xen",         eventName |-> "Transfer",        blockNumber |-> 11,
        transactionHash |-> "0xa3", to |-> "xburnMinter", user |-> "u1"],
       [address |-> "xburnMinter", eventName |-> "SwapAndBurn",     blockNumber |-> 11,
        transactionHash |-> "0xa3", to |-> "none",        user |-> "u1"],
       [address |-> "xburnNft",    eventName |-> "BurnLockCreated", blockNumber |-> 13,
        transactionHash |-> "0xa4", to |-> "none",        user |-> "u2"],
       [address |-> "xburnMinter", eventName |-> "LiquidityAdded",  blockNumber |-> 17,
        transactionHash |-> "0xa5", to |-> "none",        user |-> "u2"],
       [address |-> "xen",         eventName |-> "Transfer",        blockNumber |-> 22,
        transactionHash |-> "0xa6", to |-> "xburnMinter", user |-> "u1"],
       [address |-> "xen",         eventName |-> "Transfer",        blockNumber |-> 22,
        transactionHash |-> "0xa6", to |-> "xburnMinter", user |-> "u2"] >>

----------------------------------------------------------------------------
(* Pure helpers *)

Min(a, b) == IF a < b THEN a ELSE b

Max(a, b) == IF a > b THEN a ELSE b

\* JavaScript truthiness of a nullable block number
Truthy(n) == n # NULL /\ n # 0

\* start(): the block the in-memory watermark is set to
RewindUnclamped(startBlock, persisted) ==
    IF Truthy(persisted) THEN persisted - REORG_DEPTH ELSE startBlock

ResumeNoRewind(startBlock, persisted) ==
    IF Truthy(persisted) THEN Max(startBlock, persisted) ELSE startBlock

ResumeBlock(startBlock, persisted) ==
    IF Truthy(persisted)
    THEN Max(startBlock, persisted - REORG_DEPTH)
    ELSE startBlock

BatchStartSkipping(lastProcessed) == lastProcessed + 2

\* indexLoop(): first block of the batch
BatchStart(lastProcessed) == lastProcessed + 1

\* indexLoop(): end of the batch
EndBlockUncapped(lastProcessed, size, latest) == lastProcessed + size

EndBlock(lastProcessed, size, latest) == Min(lastProcessed + size, latest)

\* processBatch(): the five queryFilter calls, concatenated in call order
QueryFilter(address, eventName, from, to) ==
    SelectSeq(ChainLog, LAMBDA e : /\ e.address = address
                                   /\ e.eventName = eventName
                                   /\ e.blockNumber >= from
                                   /\ e.blockNumber <= to)

FetchEvents(from, to) ==
    QueryFilter("xen", "Transfer", from, to)
      \o QueryFilter("xburnMinter", "XENBurned", from, to)
      \o QueryFilter("xburnNft", "BurnLockCreated", from, to)
      \o QueryFilter("xburnMinter", "SwapAndBurn", from, to)
      \o QueryFilter("xburnMinter", "LiquidityAdded", from, to)

\* processBatch(): contract label of an event
Classify(e) ==
    IF e.address = "xen" THEN "xen"
    ELSE IF e.address = "xburnMinter"
         THEN (IF e.eventName = "XENBurned" THEN "burn"
               ELSE IF e.eventName = "SwapAndBurn" THEN "swapAndBurn"
               ELSE IF e.eventName = "LiquidityAdded" THEN "liquidityAdded"
               ELSE "unknown")
    ELSE IF e.address = "xburnNft" THEN "nft"
    ELSE "unknown"

\* processEvents(): the table an event is grouped into ("none": event log only)
VariantOfUnfiltered(e) ==
    IF Classify(e) = "xen" THEN "xen_burns"
    ELSE IF Classify(e) = "nft" THEN "burn_nft_positions"
    ELSE IF Classify(e) = "swapAndBurn" THEN "swap_burns"
    ELSE IF Classify(e) = "liquidityAdded" THEN "liquidity_added"
    ELSE "none"

VariantOf(e) ==
    IF Classify(e) = "xen" /\ e.to = "xburnMinter" THEN "xen_burns"
    ELSE IF Classify(e) = "nft" THEN "burn_nft_positions"
    ELSE IF Classify(e) = "swapAndBurn" THEN "swap_burns"
    ELSE IF Classify(e) = "liquidityAdded" THEN "liquidity_added"
    ELSE "none"

RowOf(e) ==
    [tx_hash |-> e.transactionHash, block_number |-> e.blockNumber, user |-> e.user]

RECURSIVE RowsFor(_, _)
RowsFor(events, variant) ==
    IF events = <<>> THEN <<>>
    ELSE IF VariantOf(Head(events)) = variant
         THEN <<RowOf(Head(events))>> \o RowsFor(Tail(events), variant)
         ELSE RowsFor(Tail(events), variant)

HasTx(table, tx) == \E i \in 1..Len(table) : table[i].tx_hash = tx

\* INSERT ... without a conflict clause
RECURSIVE InsertAll(_, _)
InsertAll(table, rows) ==
    IF rows = <<>> THEN table
    ELSE InsertAll(Append(table, Head(rows)), Tail(rows))

\* INSERT ... ON CONFLICT (tx_hash) DO NOTHING
RECURSIVE InsertIgnore(_, _)
InsertIgnore(table, rows) ==
    IF rows = <<>> THEN table
    ELSE IF HasTx(table, Head(rows).tx_hash)
         THEN InsertIgnore(table, Tail(rows))
         ELSE InsertIgnore(Append(table, Head(rows)), Tail(rows))

\* a transaction in which a hash stored as a Burn is taken by no other table
CommitOncePerHash(tbls, events) ==
    [v \in Variants |->
        InsertIgnore(tbls[v],
            SelectSeq(RowsFor(events, v),
                      LAMBDA r : v = "xen_burns" \/
                                 ~HasTx(tbls["xen_burns"] \o RowsFor(events, "xen_burns"),
                                        r.tx_hash)))]

\* processEvents(): the committed transaction
CommitEvents(tbls, events) ==
    [v \in Variants |-> InsertIgnore(tbls[v], RowsFor(events, v))]

\* processEvents(): the tables after the transaction failed (ROLLBACK)
RolledBack(tbls, events) == tbls

\* processBatch(): the catch block's classification
Includes(message, marker) == marker \in message

ShouldRetry(message) ==
    \/ Includes(message, "rate limit")
    \/ Includes(message, "429")
    \/ Includes(message, "exceeded")
    \/ Includes(message, "too many requests")
    \/ Includes(message, "timeout")

RetryAllowed(message, count) == ShouldRetry(message) /\ count < MAX_RETRIES

\* exponentialBackoff(): the delay of the sleep before retry number retries + 1
BackoffUncapped(retries) == retryDelay * 2 ^ retries

exponentialBackoff(retries) == Min(retryDelay * 2 ^ retries, maxBackoffDelay)

\* indexLoop(): the test at the top of an iteration
StopIgnored(isRunning, requested) == ~isRunning

LoopMustStop(isRunning, requested) == ~isRunning \/ requested

StartNeverReturnsEarly(isRunning) == FALSE

\* start(): the test that makes a second start() return at once
AlreadyRunning(isRunning) == isRunning

\* start(): validateChainConfig() finds the start block not beyond the current
\* height and reports no error, and initializeContracts() finds code
StartAllowed(startBlock, currentBlock, contractsValid) ==
    /\ ~(startBlock > currentBlock)
    /\ contractsValid

StopReturnsAtOnce(isRunning) == FALSE

\* stop(): the condition of the polling loop
StopWaits(isRunning) == isRunning

UrlSet == {Urls[i] : i \in 1..Len(Urls)}

\* RPCProvider constructor: the endpoint that is active first
LastUrl(rpcUrls) == rpcUrls[Len(rpcUrls)]

InitialUrl(rpcUrls) == rpcUrls[1]

\* String.prototype.toLowerCase() on a message: every marker in lower case
toLowerCase(message) ==
    {IF marker = "ECONNREFUSED" THEN "econnrefused" ELSE marker : marker \in message}

\* shouldSwitchProvider(): the classification of a probe error
SwitchOnAnyError(message) == TRUE

shouldSwitchProvider(message) ==
    LET errorMessage == toLowerCase(message)
    IN  \/ Includes(errorMessage, "rate limit")
        \/ Includes(errorMessage, "too many requests")
        \/ Includes(errorMessage, "exceeded")
        \/ Includes(errorMessage, "timeout")
        \/ Includes(errorMessage, "econnrefused")
        \/ Includes(errorMessage, "network error")

\* checkProvidersHealth(): the catch block's condition for calling switchProvider()
SwitchDueWhenClassified(message, failureCount) == shouldSwitchProvider(message)

SwitchDue(message, failureCount) ==
    shouldSwitchProvider(message) \/ failureCount >= ConfigMaxRetries

\* switchProvider(): the early return of the debounce
NeverDebounced(since) == FALSE

Debounced(since) == since < minProviderSwitchInterval

\* switchProvider(): the filter over providerHealth.entries(), in Map order
OtherProviders(health, current) == SelectSeq(Urls, LAMBDA url : url # current)

HealthyProviders(health, current) ==
    SelectSeq(Urls, LAMBDA url : health[url].isHealthy /\ url # current)

\* switchProvider(): Array.prototype.sort by latency (stable)
InsertByLatency(sorted, url, health) ==
    LET k == Cardinality({i \in 1..Len(sorted) :
                             health[sorted[i]].latency <= health[url].latency})
    IN  SubSeq(sorted, 1, k) \o <<url>> \o SubSeq(sorted, k + 1, Len(sorted))

Unsorted(entries, health) == entries

RECURSIVE SortByLatency(_, _)
SortByLatency(entries, health) ==
    IF entries = <<>> THEN <<>>
    ELSE InsertByLatency(SortByLatency(SubSeq(entries, 1, Len(entries) - 1), health),
                         entries[Len(entries)], health)

\* switchProvider(): the active endpoint it leaves
switchProvider(health, current, since) ==
    IF Debounced(since) THEN current
    ELSE LET healthyProviders == SortByLatency(HealthyProviders(health, current), health)
         IN  IF Len(healthyProviders) > 0 THEN healthyProviders[1] ELSE current

\* checkProvidersHealth(): the rounds in progress after one of them has probed url number i
NextProbe(inProgress, i) ==
    IF i < Len(Urls)
    THEN [inProgress EXCEPT ![i] = @ - 1, ![i + 1] = @ + 1]
    ELSE [inProgress EXCEPT ![i] = @ - 1]

RECURSIVE InProgress(_, _)
InProgress(inProgress, i) ==
    IF i = 0 THEN 0 ELSE inProgress[i] + InProgress(inProgress, i - 1)

Chains == 1..NumChains

MonitoredChains == 1..NumMonitored

\* SQL NULL in a row; a value n is held as <<n>>
SqlNull == <<>>

\* chain_health holds no row for the chain
NoRow == [is_healthy |-> FALSE, error_message |-> SqlNull, blocks_behind |-> SqlNull,
          rpc_latency_ms |-> SqlNull, current_rpc_url |-> "none"]

\* checkChainHealth(): blocksBehind with the persisted watermark ignored
BlocksBehindGenesis(latest, persisted) == latest

\* checkChainHealth(): blocksBehind, latestBlock - (chainData?.last_indexed_block || 0)
BlocksBehind(latest, persisted) == latest - (IF Truthy(persisted) THEN persisted ELSE 0)

\* update_chain_health(): INSERT ... ON CONFLICT (chain_id) DO UPDATE
UpdateChainHealth(table, c, healthy, message, behind, latency, url) ==
    [table EXCEPT ![c] = [is_healthy |-> healthy, error_message |-> message,
                          blocks_behind |-> behind, rpc_latency_ms |-> latency,
                          current_rpc_url |-> url]]

\* checkAllChains(): position after the check of chain i has returned
NextCheck(i) == IF i < NumMonitored THEN <<"querying", i + 1>> ELSE <<"idle", 0>>

AbortTick(i) == <<"idle", 0>>

\* checkAllChains(): position after the check of chain i has thrown (the catch block logs)
OnCheckThrown(i) == NextCheck(i)

\* no timestamp: the cache has no entry, no record was written
NoTimestamp == 0

\* getBlockTimestamp(): timestamp of a fetched block (null: the current time)
TimestampOf(c, b, found) == IF found THEN ChainTime(c, b) ELSE Now

\* IndexerManager.start(): position after chain i of a loop has been dealt with
\* the users the chain's logs name
Users == {ChainLog[i].user : i \in 1..Len(ChainLog)}

\* a user_stats row with every total at its default (as good as no row)
\* update_user_stats(): INSERT ... ON CONFLICT (user_address) DO UPDATE SET total = total + delta
update_user_stats(stats, user, burned, burns, positions, locked, swaps, swapped) ==
    [stats EXCEPT ![user] =
        [total_xen_burned   |-> @.total_xen_burned + burned,
         burn_count         |-> @.burn_count + burns,
         nft_position_count |-> @.nft_position_count + positions,
         total_xen_locked   |-> @.total_xen_locked + locked,
         swap_burn_count    |-> @.swap_burn_count + swaps,
         total_xen_swapped  |-> @.total_xen_swapped + swapped]]

\* processEvents(): the update_user_stats() calls that follow the INSERT of
\* one group, one call per element of the group's array
RECURSIVE UpdateStatsFor(_, _, _)
UpdateStatsFor(stats, events, variant) ==
    IF events = <<>> THEN stats
    ELSE LET e == Head(events)
             next ==
                 IF VariantOf(e) # variant THEN stats
                 ELSE IF variant = "xen_burns"
                      THEN update_user_stats(stats, e.user, ArgAmount(e), 1, 0, 0, 0, 0)
                 ELSE IF variant = "burn_nft_positions"
                      THEN update_user_stats(stats, e.user, 0, 0, 1, ArgAmount(e), 0, 0)
                 ELSE IF variant = "swap_burns"
                      THEN update_user_stats(stats, e.user, 0, 0, 0, 0, 1, ArgAmount(e))
                 ELSE stats
         IN  UpdateStatsFor(next, Tail(events), variant)

\* processEvents(): the INSERT of one group and its update_user_stats() calls
InsertGroup(db, events, variant) ==
    [db EXCEPT !.tables[variant] = InsertIgnore(@, RowsFor(events, variant)),
               !.userStats = UpdateStatsFor(@, events, variant)]

\* processEvents(): the statements between BEGIN and COMMIT
TxSteps == 6

\* processEvents(): the transaction's view after its first k statements
Transaction(db, events, k) ==
    LET s1 == IF k >= 1 THEN InsertGroup(db, events, "xen_burns") ELSE db
        s2 == IF k >= 2 THEN InsertGroup(s1, events, "burn_nft_positions") ELSE s1
        s3 == IF k >= 3 THEN InsertGroup(s2, events, "swap_burns") ELSE s2
        s4 == IF k >= 4 THEN InsertGroup(s3, events, "liquidity_added") ELSE s3
        s5 == IF k >= 5 THEN [s4 EXCEPT !.eventLogRows = @ + Len(events)] ELSE s4
        s6 == IF k >= 6 THEN [s5 EXCEPT !.chainStatsRows = @ + 1] ELSE s5
    IN  s6

KeepPartial(before, partial) == partial

\* processEvents(): ROLLBACK in the catch block
Rollback(before, partial) == before

Advance(phase, i) ==
    IF i < NumChains THEN <<phase, i + 1>>
    ELSE IF phase = "initializing" THEN <<"monitoring", 0>>
    ELSE <<"started", 0>>

\* IndexerManager.start(): position after chain i of a loop has thrown
IsolateFailure(phase, i) == Advance(phase, i)

OnChainFailure(phase, i) == <<"failed", i>>

----------------------------------------------------------------------------
(* State machine *)

\* a ChainIndexer after construction
IndexerInit ==
    /\ running = FALSE
    /\ stopRequested = FALSE
    /\ lastProcessedBlock = NULL
    /\ dbWatermark = NULL
    /\ tables = [v \in Variants |-> <<>>]
    /\ pc = "idle"
    /\ latestBlock = 0
    /\ batchStart = 0
    /\ batchEnd = 0
    /\ retryCount = 0
    /\ delay = 0
    /\ stopCaller = "none"
    /\ doneAfterStop = FALSE
    /\ sessionBatches = FALSE
    /\ sessionWrites = FALSE
    /\ failedRange = NoRange
    /\ maxIndexed = 0
    /\ rewound = FALSE
    /\ validation = NULL
    /\ startIgnored = FALSE
    /\ indexingPerformance = <<>>
    /\ loops = 0
    /\ covered = {}
    /\ firstScanned = NULL
    /\ prevEnd = NULL
    /\ stable = FALSE
    /\ observed = 0

\* an RPCProvider after construction
ProviderInit ==
    /\ currentProviderUrl = InitialUrl(Urls)
    /\ providerHealth = [url \in UrlSet |->
                            [isHealthy |-> TRUE, failureCount |-> 0, latency |-> 0]]
    /\ sinceSwitch = minProviderSwitchInterval
    /\ rounds = [i \in 1..Len(Urls) |-> 0]
    /\ lastError = NoError
    /\ switched = FALSE

\* an IndexerManager after construction
ManagerInit ==
    /\ mgrPc = "new"
    /\ mgrIndex = 0
    /\ chainStatus = [c \in Chains |-> "pending"]
    /\ indexers = [c \in Chains |->
                      [running |-> FALSE, stopRequested |-> FALSE, phase |-> "idle",
                       retrying |-> FALSE]]
    /\ healthMonitorTimer = FALSE
    /\ dbsEnded = {}
    /\ stopPc = "none"
    /\ stopIndex = 0
    /\ stopTarget = "none"
    /\ reported = [c \in Chains |-> "none"]
    /\ lateWrite = FALSE

\* an IndexerHealthMonitor after construction, over chains nothing was indexed on
MonitorInit ==
    /\ chainHealth = [c \in MonitoredChains |-> NoRow]
    /\ lastIndexedBlocks = [c \in MonitoredChains |-> NULL]
    /\ checkPc = "new"
    /\ checkIndex = 0
    /\ checkUrl = "unknown"
    /\ checkLatest = 0
    /\ checkLatency = 0
    /\ checkError = NoError
    /\ checked = {}

\* the module after loading: const blockTimestampCache = new Map()
CacheInit ==
    /\ blockTimestampCache = [b \in CachedBlocks |-> NoTimestamp]
    /\ recordTimestamps = [c \in Chains |-> [b \in CachedBlocks |-> NoTimestamp]]

\* the storage of a chain after the schema was applied
StoreInit ==
    /\ userStats = [u \in Users |->
           [total_xen_burned |-> 0, burn_count |-> 0, nft_position_count |-> 0,
            total_xen_locked |-> 0, swap_burn_count |-> 0, total_xen_swapped |-> 0]]
    /\ eventLogRows = 0
    /\ chainStatsRows = 1
    /\ txRange = NoRange
    /\ txOutcome = "none"

Init ==
    /\ cfgStartBlock \in StartBlocks
    /\ cfgBatchSize \in BatchSizes
    /\ contractsDeployed = TRUE
    /\ endpointChain = "configured"
    /\ IndexerInit
    /\ ProviderInit
    /\ hasConfig = [c \in Chains |-> TRUE]
    /\ ManagerInit
    /\ MonitorInit
    /\ CacheInit
    /\ StoreInit

cfgVars == <<cfgStartBlock, cfgBatchSize, contractsDeployed, endpointChain, stable>>

batchVars == <<latestBlock, batchStart, batchEnd, retryCount, delay>>

stopVars == <<stopCaller, doneAfterStop>>

histVars == <<sessionBatches, sessionWrites, failedRange, maxIndexed, rewound>>

coverVars == <<loops, covered, firstScanned, prevEnd, observed>>

\* start() while already running: warn and return
StartWhileRunning ==
    /\ AlreadyRunning(running)
    /\ startIgnored' = TRUE
    /\ UNCHANGED <<cfgVars, nonIndexerVars, coverVars, indexingPerformance, validation, running,
                   stopRequested, lastProcessedBlock, dbWatermark, tables, pc, batchVars,
                   stopVars, histVars>>

\* start(): running = true; stopRequested = false; then validateChainConfig()
\* reads the height and initializeContracts() the code of the three contracts
StartBegin ==
    /\ ~AlreadyRunning(running)
    /\ running' = TRUE
    /\ stopRequested' = FALSE
    /\ doneAfterStop' = FALSE
    /\ pc' = "starting"
    /\ validation' \in Heights
    /\ startIgnored' = FALSE
    /\ UNCHANGED <<cfgVars, nonIndexerVars, coverVars, indexingPerformance, lastProcessedBlock,
                   dbWatermark, tables, batchVars, stopCaller, histVars>>

\* start(): the validation reports errors, a contract has no code, or a query
\* throws: running = false and the error is rethrown
StartFail ==
    /\ pc = "starting"
    /\ ~stable \/ ~StartAllowed(cfgStartBlock, validation, contractsDeployed)
    /\ running' = FALSE
    /\ pc' = "idle"
    /\ validation' = NULL
    /\ startIgnored' = FALSE
    /\ UNCHANGED <<cfgVars, nonIndexerVars, coverVars, indexingPerformance, stopRequested,
                   lastProcessedBlock, dbWatermark, tables, batchVars, stopVars, histVars>>

\* start(): validation passed; reads the watermark, rewinds, calls indexLoop()
StartResume ==
    /\ pc = "starting"
    /\ StartAllowed(cfgStartBlock, validation, contractsDeployed)
    /\ lastProcessedBlock' = ResumeBlock(cfgStartBlock, dbWatermark)
    /\ pc' = "loop"
    /\ sessionBatches' = FALSE
    /\ sessionWrites' = FALSE
    /\ failedRange' = NoRange
    /\ rewound' = FALSE
    /\ validation' = NULL
    /\ loops' = loops + 1
    /\ firstScanned' = NULL
    /\ prevEnd' = NULL
    /\ startIgnored' = FALSE
    /\ UNCHANGED <<cfgVars, nonIndexerVars, covered, observed, indexingPerformance, running,
                   stopRequested, dbWatermark, tables, batchVars, stopVars, maxIndexed>>

\* stop(): sets the flag and tests running; returns at once when not running
StopRequest ==
    /\ ~stable
    /\ stopRequested' = TRUE
    /\ stopCaller' = (IF StopWaits(running) THEN "polling" ELSE "returned")
    /\ startIgnored' = FALSE
    /\ UNCHANGED <<cfgVars, nonIndexerVars, coverVars, indexingPerformance, validation, running,
                   lastProcessedBlock, dbWatermark, tables, pc, batchVars, doneAfterStop,
                   histVars>>

\* stop(): the one-second timer fires and running is tested again
StopPoll ==
    /\ stopCaller = "polling"
    /\ stopCaller' = (IF StopWaits(running) THEN "polling" ELSE "returned")
    /\ startIgnored' = FALSE
    /\ UNCHANGED <<cfgVars, nonIndexerVars, coverVars, indexingPerformance, validation, running,
                   stopRequested, lastProcessedBlock, dbWatermark, tables, pc, batchVars,
                   doneAfterStop, histVars>>

\* the pc a caught loop error leads to: the catch block re-arms the timer
AbandonLoop == "idle"

OnLoopError == "sleeping"

\* indexLoop(): top of an iteration, stop requested
LoopStop ==
    /\ pc \in {"loop", "sleeping"}
    /\ LoopMustStop(running, stopRequested)
    /\ running' = FALSE
    /\ pc' = "idle"
    /\ loops' = loops - 1
    /\ startIgnored' = FALSE
    /\ UNCHANGED <<cfgVars, nonIndexerVars, covered, firstScanned, prevEnd, observed,
                   indexingPerformance, validation,
                   stopRequested, lastProcessedBlock, dbWatermark, tables, batchVars,
                   stopVars, histVars>>

\* indexLoop(): top of an iteration passed; getProvider() and getBlockNumber() awaited
LoopEnter ==
    /\ pc \in {"loop", "sleeping"}
    /\ ~LoopMustStop(running, stopRequested)
    /\ pc' = "querying"
    /\ startIgnored' = FALSE
    /\ UNCHANGED <<cfgVars, nonIndexerVars, coverVars, indexingPerformance, validation, running,
                   stopRequested, lastProcessedBlock, dbWatermark, tables, batchVars,
                   stopVars, histVars>>

\* indexLoop(): getBlockNumber() throws, or lastProcessedBlock is falsy
LoopQueryFail ==
    /\ pc = "querying"
    /\ ~stable \/ ~Truthy(lastProcessedBlock)
    /\ pc' = OnLoopError
    /\ startIgnored' = FALSE
    /\ UNCHANGED <<cfgVars, nonIndexerVars, coverVars, indexingPerformance, validation, running,
                   stopRequested, lastProcessedBlock, dbWatermark, tables, batchVars,
                   stopVars, histVars>>

\* indexLoop(): height read; either caught up (re-arm the timer) or start a batch
LoopQuery ==
    /\ pc = "querying"
    /\ Truthy(lastProcessedBlock)
    /\ \E h \in Heights :
         /\ observed' = (IF stable THEN h ELSE observed)
         /\ IF h > lastProcessedBlock
            THEN /\ latestBlock' = h
                 /\ batchStart' = BatchStart(lastProcessedBlock)
                 /\ batchEnd' = EndBlock(lastProcessedBlock, cfgBatchSize, h)
                 /\ retryCount' = 0
                 /\ pc' = "batch"
                 /\ firstScanned' =
                        (IF firstScanned = NULL THEN batchStart' ELSE firstScanned)
                 /\ UNCHANGED delay
            ELSE /\ pc' = "sleeping"
                 /\ UNCHANGED <<batchVars, firstScanned>>
    /\ startIgnored' = FALSE
    /\ UNCHANGED <<cfgVars, nonIndexerVars, loops, covered, prevEnd,
                   indexingPerformance, validation, running,
                   stopRequested, lastProcessedBlock, dbWatermark, tables, stopVars,
                   histVars>>

\* processBatch(): a fetch or the transaction throws (the transaction rolls back)
BatchFail ==
    /\ pc = "batch"
    /\ ~stable
    /\ \E message \in ErrorMessages :
         IF RetryAllowed(message, retryCount)
         THEN /\ pc' = "backoff"
              /\ delay' = exponentialBackoff(retryCount)
              /\ UNCHANGED <<latestBlock, batchStart, batchEnd, retryCount>>
         ELSE /\ pc' = OnLoopError
              /\ latestBlock' = 0
              /\ batchStart' = 0
              /\ batchEnd' = 0
              /\ UNCHANGED <<retryCount, delay>>
    /\ tables' = RolledBack(tables, FetchEvents(batchStart, batchEnd))
    /\ failedRange' = <<batchStart, batchEnd>>
    /\ startIgnored' = FALSE
    /\ UNCHANGED <<cfgVars, nonIndexerVars, coverVars, indexingPerformance, validation, running,
                   stopRequested, lastProcessedBlock, dbWatermark, stopVars, sessionBatches,
                   sessionWrites, maxIndexed, rewound>>

\* processBatch(): exponentialBackoff() elapsed, recursive call with retryCount + 1
BackoffDone ==
    /\ pc = "backoff"
    /\ retryCount' = retryCount + 1
    /\ delay' = 0
    /\ pc' = "batch"
    /\ startIgnored' = FALSE
    /\ UNCHANGED <<cfgVars, nonIndexerVars, coverVars, indexingPerformance, validation, running,
                   stopRequested, lastProcessedBlock, dbWatermark, tables, latestBlock,
                   batchStart, batchEnd, stopVars, histVars>>

\* processBatch() returns: events fetched and committed; lastProcessedBlock = endBlock
BatchSucceed ==
    /\ pc = "batch"
    /\ tables' = CommitEvents(tables, FetchEvents(batchStart, batchEnd))
    /\ lastProcessedBlock' = batchEnd
    /\ pc' = "storing"
    /\ sessionBatches' = TRUE
    /\ failedRange' = NoRange
    /\ maxIndexed' = Max(maxIndexed, batchEnd)
    /\ doneAfterStop' = (doneAfterStop \/ stopRequested)
    /\ covered' = covered \cup (batchStart..batchEnd)
    /\ prevEnd' = batchEnd
    /\ startIgnored' = FALSE
    /\ UNCHANGED <<cfgVars, nonIndexerVars, loops, firstScanned, observed,
                   indexingPerformance, validation, running,
                   stopRequested, dbWatermark, batchVars, stopCaller, sessionWrites,
                   rewound>>

\* indexLoop(): UPDATE chains SET last_indexed_block = endBlock commits
StoreWatermark ==
    /\ pc = "storing"
    /\ dbWatermark' = batchEnd
    /\ sessionWrites' = TRUE
    /\ rewound' = (rewound \/ batchEnd < dbWatermark)
    /\ pc' = "sleeping"
    /\ latestBlock' = 0
    /\ batchStart' = 0
    /\ batchEnd' = 0
    /\ retryCount' = 0
    /\ startIgnored' = FALSE
    /\ UNCHANGED <<cfgVars, nonIndexerVars, coverVars, indexingPerformance, validation, running,
                   stopRequested, lastProcessedBlock, tables, delay, stopVars,
                   sessionBatches, failedRange, maxIndexed>>

\* indexLoop(): the UPDATE throws; the catch block re-arms the timer
StoreWatermarkFail ==
    /\ pc = "storing"
    /\ ~stable
    /\ pc' = OnLoopError
    /\ failedRange' = <<batchStart, batchEnd>>
    /\ latestBlock' = 0
    /\ batchStart' = 0
    /\ batchEnd' = 0
    /\ retryCount' = 0
    /\ startIgnored' = FALSE
    /\ UNCHANGED <<cfgVars, nonIndexerVars, coverVars, indexingPerformance, validation, running,
                   stopRequested, lastProcessedBlock, dbWatermark, tables, delay, stopVars,
                   sessionBatches, sessionWrites, maxIndexed, rewound>>

\* the process exits and is started again: a new ChainIndexer, the same database
ProcessRestart ==
    /\ ~stable
    /\ running' = FALSE
    /\ stopRequested' = FALSE
    /\ lastProcessedBlock' = NULL
    /\ pc' = "idle"
    /\ latestBlock' = 0
    /\ batchStart' = 0
    /\ batchEnd' = 0
    /\ retryCount' = 0
    /\ delay' = 0
    /\ stopCaller' = "none"
    /\ doneAfterStop' = FALSE
    /\ sessionBatches' = FALSE
    /\ sessionWrites' = FALSE
    /\ failedRange' = NoRange
    /\ rewound' = FALSE
    /\ validation' = NULL
    /\ loops' = 0
    /\ firstScanned' = NULL
    /\ prevEnd' = NULL
    /\ startIgnored' = FALSE
    /\ UNCHANGED <<cfgVars, nonIndexerVars, covered, observed, indexingPerformance, dbWatermark, tables,
                   maxIndexed>>

Next ==
    \/ StartBegin
    \/ StartFail
    \/ StartResume
    \/ StopRequest
    \/ StopPoll
    \/ LoopStop
    \/ LoopEnter
    \/ LoopQueryFail
    \/ LoopQuery
    \/ BatchFail
    \/ BackoffDone
    \/ BatchSucceed
    \/ StoreWatermark
    \/ StoreWatermarkFail
    \/ ProcessRestart

Spec == Init /\ [][Next]_vars

\* the environment settles: from now on every query and every storage
\* operation of the running indexer succeeds, and stop() is not called
Settle ==
    /\ ~stable
    /\ running
    /\ ~stopRequested
    /\ stable' = TRUE
    /\ startIgnored' = FALSE
    /\ UNCHANGED <<cfgStartBlock, cfgBatchSize, contractsDeployed, endpointChain,
                   nonIndexerVars, coverVars, indexingPerformance, validation, running,
                   stopRequested, lastProcessedBlock, dbWatermark, tables, pc, batchVars,
                   stopVars, histVars>>

\* the indexer of one chain in an environment that may settle
FairInit ==
    /\ cfgStartBlock = 2
    /\ cfgBatchSize = 30
    /\ contractsDeployed = TRUE
    /\ endpointChain = "configured"
    /\ IndexerInit
    /\ ProviderInit
    /\ hasConfig = [c \in Chains |-> TRUE]
    /\ ManagerInit
    /\ MonitorInit
    /\ CacheInit
    /\ StoreInit

FairNext ==
    \/ Settle
    \/ Next

\* every awaited query, storage operation and timer of the indexer ends, and
\* the poll timer of stop() fires
FairSpec ==
    /\ FairInit
    /\ [][FairNext]_vars
    /\ WF_vars(StartFail \/ StartResume)
    /\ WF_vars(LoopStop \/ LoopEnter)
    /\ WF_vars(LoopQueryFail \/ LoopQuery)
    /\ WF_vars(BatchFail \/ BatchSucceed)
    /\ WF_vars(BackoffDone)
    /\ WF_vars(StoreWatermarkFail \/ StoreWatermark)
    /\ WF_vars(StopPoll)

\* the indexer with the calls of start() on a running indexer, on a chain
\* whose contracts may be missing and behind an endpoint that may serve
\* another chain
StartInit ==
    /\ cfgStartBlock \in StartBlocks
    /\ cfgBatchSize = 30
    /\ contractsDeployed \in BOOLEAN
    /\ endpointChain \in EndpointChains
    /\ IndexerInit
    /\ ProviderInit
    /\ hasConfig = [c \in Chains |-> TRUE]
    /\ ManagerInit
    /\ MonitorInit
    /\ CacheInit
    /\ StoreInit

StartNext ==
    \/ StartWhileRunning
    \/ Next

StartSpec == StartInit /\ [][StartNext]_vars

----------------------------------------------------------------------------
(* The endpoint pool: RPCProvider *)

\* setInterval fires: checkProvidersHealth() is called and probes the first url
StartRound ==
    /\ InProgress(rounds, Len(Urls)) < MaxRounds
    /\ rounds' = [rounds EXCEPT ![1] = @ + 1]
    /\ UNCHANGED <<nonPoolVars, currentProviderUrl, providerHealth, sinceSwitch,
                   lastError, switched>>

\* checkProvidersHealth(): getBlockNumber() of url number i returns a block number
ProbeSuccess(i) ==
    /\ rounds[i] > 0
    /\ \E latency \in Latencies :
         providerHealth' = [providerHealth EXCEPT ![Urls[i]] =
                               [isHealthy |-> TRUE, failureCount |-> 0, latency |-> latency]]
    /\ rounds' = NextProbe(rounds, i)
    /\ lastError' = NoError
    /\ UNCHANGED <<nonPoolVars, currentProviderUrl, sinceSwitch, switched>>

\* checkProvidersHealth(): the probe of url number i throws; the catch block,
\* switchProvider() included
ProbeFailure(i) ==
    /\ rounds[i] > 0
    /\ \E message \in ProbeErrors :
         LET url == Urls[i]
             count == Min(providerHealth[url].failureCount + 1, MaxFailureCount)
             health == [providerHealth EXCEPT ![url].isHealthy = FALSE,
                                              ![url].failureCount = count]
             target == IF url = currentProviderUrl /\ SwitchDue(message, count)
                       THEN switchProvider(health, currentProviderUrl, sinceSwitch)
                       ELSE currentProviderUrl
         IN  /\ providerHealth' = health
             /\ currentProviderUrl' = target
             /\ sinceSwitch' = (IF target # currentProviderUrl THEN 0 ELSE sinceSwitch)
             /\ switched' = (switched \/ target # currentProviderUrl)
             /\ lastError' = message
    /\ rounds' = NextProbe(rounds, i)
    /\ UNCHANGED nonPoolVars

\* time passes
Tick ==
    /\ sinceSwitch < minProviderSwitchInterval
    /\ sinceSwitch' = Min(sinceSwitch + TickMs, minProviderSwitchInterval)
    /\ UNCHANGED <<nonPoolVars, currentProviderUrl, providerHealth, rounds,
                   lastError, switched>>

ProviderNext ==
    \/ StartRound
    \/ \E i \in 1..Len(Urls) : ProbeSuccess(i)
    \/ \E i \in 1..Len(Urls) : ProbeFailure(i)
    \/ Tick

\* one component of a process whose other components are as constructed
Standalone ==
    /\ cfgStartBlock = 2
    /\ cfgBatchSize = 3
    /\ contractsDeployed = TRUE
    /\ endpointChain = "configured"
    /\ IndexerInit
    /\ ProviderInit
    /\ hasConfig = [c \in Chains |-> TRUE]
    /\ ManagerInit
    /\ MonitorInit
    /\ CacheInit
    /\ StoreInit

ProviderSpec == Standalone /\ [][ProviderNext]_vars

\* the interval timer keeps firing, every probe ends, and time passes
ProviderFairSpec ==
    /\ ProviderSpec
    /\ WF_vars(StartRound)
    /\ \A i \in 1..Len(Urls) : WF_vars(ProbeSuccess(i) \/ ProbeFailure(i))
    /\ WF_vars(Tick)

----------------------------------------------------------------------------
(* IndexerManager: start(), the indexers it starts, stop() and the signal handlers *)

\* start() is called: the loop over the enabled chains begins
ManagerStart ==
    /\ mgrPc = "new"
    /\ mgrPc' = "initializing"
    /\ mgrIndex' = 1
    /\ UNCHANGED <<nonManagerVars, hasConfig, chainStatus, indexers, shutdownVars>>

\* initializeChain(): no configuration for the chain key: warn and return
InitializeChainSkip ==
    /\ mgrPc = "initializing"
    /\ ~hasConfig[mgrIndex]
    /\ chainStatus' = [chainStatus EXCEPT ![mgrIndex] = "skipped"]
    /\ mgrPc' = Advance("initializing", mgrIndex)[1]
    /\ mgrIndex' = Advance("initializing", mgrIndex)[2]
    /\ UNCHANGED <<nonManagerVars, hasConfig, indexers, shutdownVars>>

\* initializeChain(): pool, schema, provider, indexer and chain rows are set up
InitializeChain ==
    /\ mgrPc = "initializing"
    /\ hasConfig[mgrIndex]
    /\ chainStatus' = [chainStatus EXCEPT ![mgrIndex] = "initialized"]
    /\ mgrPc' = Advance("initializing", mgrIndex)[1]
    /\ mgrIndex' = Advance("initializing", mgrIndex)[2]
    /\ UNCHANGED <<nonManagerVars, hasConfig, indexers, shutdownVars>>

\* initializeChain(): a step throws; the catch blocks of initializeChain() and start()
InitializeChainFail ==
    /\ mgrPc = "initializing"
    /\ hasConfig[mgrIndex]
    /\ chainStatus' = [chainStatus EXCEPT ![mgrIndex] = "initFailed"]
    /\ mgrPc' = OnChainFailure("initializing", mgrIndex)[1]
    /\ mgrIndex' = OnChainFailure("initializing", mgrIndex)[2]
    /\ UNCHANGED <<nonManagerVars, hasConfig, indexers, shutdownVars>>

\* startHealthMonitoring(): the monitor is created, its interval armed, its first check made
StartHealthMonitoring ==
    /\ mgrPc = "monitoring"
    /\ mgrPc' = "starting"
    /\ mgrIndex' = 1
    /\ healthMonitorTimer' = TRUE
    /\ UNCHANGED <<nonManagerVars, hasConfig, chainStatus, indexers, dbsEnded, stopPc,
                   stopIndex, stopTarget, reported, lateWrite>>

\* start(): a chain without an indexer is not in this.indexers
StartIndexerAbsent ==
    /\ mgrPc = "starting"
    /\ chainStatus[mgrIndex] # "initialized"
    /\ mgrPc' = Advance("starting", mgrIndex)[1]
    /\ mgrIndex' = Advance("starting", mgrIndex)[2]
    /\ UNCHANGED <<nonManagerVars, hasConfig, chainStatus, indexers, shutdownVars>>

\* start() is awaiting indexer.start() of chain c
InStart(c) ==
    /\ mgrPc = "starting"
    /\ mgrIndex = c
    /\ chainStatus[c] = "initialized"
    /\ indexers[c].phase # "idle"

\* start(): await indexer.start() returns for chain c (when it is the one awaited)
StartReturns(c) ==
    IF InStart(c)
    THEN /\ chainStatus' = [chainStatus EXCEPT ![c] = "started"]
         /\ mgrPc' = Advance("starting", c)[1]
         /\ mgrIndex' = Advance("starting", c)[2]
    ELSE UNCHANGED <<chainStatus, mgrPc, mgrIndex>>

\* start(): indexer.start() is called: running = true; stopRequested = false
StartIndexer ==
    /\ mgrPc = "starting"
    /\ chainStatus[mgrIndex] = "initialized"
    /\ indexers[mgrIndex].phase = "idle"
    /\ ~indexers[mgrIndex].running
    /\ indexers' = [indexers EXCEPT ![mgrIndex] =
                       [running |-> TRUE, stopRequested |-> FALSE, phase |-> "validating",
                        retrying |-> FALSE]]
    /\ UNCHANGED <<nonManagerVars, hasConfig, mgrPc, mgrIndex, chainStatus,
                   shutdownVars>>

\* start(): await indexer.start() throws (running = false); the catch block rethrows
StartIndexerFail ==
    /\ InStart(mgrIndex)
    /\ indexers[mgrIndex].phase = "validating"
    /\ indexers' = [indexers EXCEPT ![mgrIndex].running = FALSE, ![mgrIndex].phase = "idle"]
    /\ chainStatus' = [chainStatus EXCEPT ![mgrIndex] = "startFailed"]
    /\ mgrPc' = OnChainFailure("starting", mgrIndex)[1]
    /\ mgrIndex' = OnChainFailure("starting", mgrIndex)[2]
    /\ UNCHANGED <<nonManagerVars, hasConfig, shutdownVars>>

\* indexLoop() of chain c, top of an iteration (the first one is called by
\* start(), a later one by the timer): stop requested, the loop ends
ChainLoopStop(c) ==
    /\ mgrPc # "exited"
    /\ indexers[c].phase \in {"validating", "sleeping"}
    /\ LoopMustStop(indexers[c].running, indexers[c].stopRequested)
    /\ indexers' = [indexers EXCEPT ![c].running = FALSE, ![c].phase = "idle"]
    /\ StartReturns(c)
    /\ UNCHANGED <<nonManagerVars, hasConfig, shutdownVars>>

\* indexLoop() of chain c, top of an iteration passed: height read, processBatch() called
ChainLoopBatch(c) ==
    /\ mgrPc # "exited"
    /\ indexers[c].phase \in {"validating", "sleeping"}
    /\ ~LoopMustStop(indexers[c].running, indexers[c].stopRequested)
    /\ indexers' = [indexers EXCEPT ![c].phase = "batch"]
    /\ UNCHANGED <<nonManagerVars, hasConfig, mgrPc, mgrIndex, chainStatus,
                   shutdownVars>>

\* processBatch() of chain c: a retryable error, exponentialBackoff() begins
ChainBatchRetry(c) ==
    /\ mgrPc # "exited"
    /\ indexers[c].phase = "batch"
    /\ indexers' = [indexers EXCEPT ![c].phase = "backoff"]
    /\ UNCHANGED <<nonManagerVars, hasConfig, mgrPc, mgrIndex, chainStatus,
                   shutdownVars>>

\* processBatch() of chain c: the backoff elapsed, the batch is tried again
ChainBackoffDone(c) ==
    /\ mgrPc # "exited"
    /\ indexers[c].phase = "backoff"
    /\ indexers' = [indexers EXCEPT ![c].phase = "batch", ![c].retrying = TRUE]
    /\ UNCHANGED <<nonManagerVars, hasConfig, mgrPc, mgrIndex, chainStatus,
                   shutdownVars>>

\* indexLoop() of chain c: the iteration ends, with the batch and the watermark
\* written or in the catch block; either way the timer is armed again
ChainIterationEnd(c) ==
    /\ mgrPc # "exited"
    /\ indexers[c].phase = "batch"
    /\ indexers' = [indexers EXCEPT ![c].phase = "sleeping", ![c].retrying = FALSE]
    /\ \E wrote \in BOOLEAN : lateWrite' = (lateWrite \/ (wrote /\ c \in dbsEnded))
    /\ StartReturns(c)
    /\ UNCHANGED <<nonManagerVars, hasConfig, healthMonitorTimer, dbsEnded, stopPc,
                   stopIndex, stopTarget, reported>>

\* the entries of the maps this.indexers and this.dbs: initializeChain() registers both
InMaps(status) == status \in {"initialized", "started", "startFailed", "initFailed"}

\* Map iteration: the first chain after i with an entry, 0 when there is none
NextEntry(status, i) ==
    IF \E k \in Chains : k > i /\ InMaps(status[k])
    THEN CHOOSE k \in Chains : /\ k > i
                               /\ InMaps(status[k])
                               /\ \A j \in Chains : (j > i /\ InMaps(status[j])) => k <= j
    ELSE 0

\* start() is suspended at an await (or over), so that handlers and timers can run
StartSuspended ==
    \/ mgrPc \in {"started", "failed"}
    \/ InStart(mgrIndex)

\* src/src/index.ts: SIGTERM or SIGINT: gracefulShutdown() calls manager.stop()
Signal ==
    /\ stopPc = "none"
    /\ mgrPc \in {"starting", "started"}
    /\ StartSuspended
    /\ stopTarget' = "live"
    /\ stopPc' = "indexers"
    /\ stopIndex' = 0
    /\ UNCHANGED <<nonManagerVars, hasConfig, mgrPc, mgrIndex, chainStatus, indexers,
                   healthMonitorTimer, dbsEnded, reported, lateWrite>>

\* src/dist/config.js: SIGTERM or SIGINT: new IndexerManager().stop() (no
\* indexers, its own pool), then process.exit(0)
SignalCompiled ==
    /\ stopPc = "none"
    /\ mgrPc \in {"starting", "started"}
    /\ StartSuspended
    /\ stopTarget' = "fresh"
    /\ stopPc' = "done"
    /\ mgrPc' = "exited"
    /\ UNCHANGED <<nonManagerVars, hasConfig, mgrIndex, chainStatus, indexers,
                   healthMonitorTimer, dbsEnded, stopIndex, reported, lateWrite>>

\* manager.start().catch(...): gracefulShutdown('FATAL_ERROR') calls manager.stop()
FatalShutdown ==
    /\ mgrPc = "failed"
    /\ stopPc = "none"
    /\ stopTarget' = "live"
    /\ stopPc' = "indexers"
    /\ stopIndex' = 0
    /\ UNCHANGED <<nonManagerVars, hasConfig, mgrPc, mgrIndex, chainStatus, indexers,
                   healthMonitorTimer, dbsEnded, reported, lateWrite>>

\* stop(): await indexer.stop() on the next indexer: the flag is set, running tested
StopIndexer ==
    /\ stopPc = "indexers"
    /\ StartSuspended
    /\ LET k == NextEntry(chainStatus, stopIndex) IN
         IF k = 0
         THEN /\ stopPc' = "cleanup"
              /\ stopIndex' = 0
              /\ UNCHANGED <<indexers, reported>>
         ELSE /\ indexers' = [indexers EXCEPT ![k].stopRequested = TRUE]
              /\ stopIndex' = k
              /\ IF StopWaits(indexers[k].running)
                 THEN /\ stopPc' = "polling"
                      /\ UNCHANGED reported
                 ELSE /\ stopPc' = "indexers"
                      /\ reported' = [reported EXCEPT ![k] =
                             IF indexers[k].running THEN "running" ELSE "notRunning"]
    /\ UNCHANGED <<nonManagerVars, hasConfig, mgrPc, mgrIndex, chainStatus,
                   healthMonitorTimer, dbsEnded, stopTarget, lateWrite>>

\* ChainIndexer.stop(): the one-second timer fires, running is false: stop() returns
StopIndexerPoll ==
    /\ stopPc = "polling"
    /\ StartSuspended
    /\ ~StopWaits(indexers[stopIndex].running)
    /\ reported' = [reported EXCEPT ![stopIndex] =
                       IF indexers[stopIndex].running THEN "running" ELSE "notRunning"]
    /\ stopPc' = "indexers"
    /\ UNCHANGED <<nonManagerVars, hasConfig, mgrPc, mgrIndex, chainStatus, indexers,
                   healthMonitorTimer, dbsEnded, stopIndex, stopTarget, lateWrite>>

\* stop(): healthMonitor.cleanup() clears the interval
StopCleanup ==
    /\ stopPc = "cleanup"
    /\ StartSuspended
    /\ healthMonitorTimer' = FALSE
    /\ stopPc' = "closing"
    /\ stopIndex' = 0
    /\ UNCHANGED <<nonManagerVars, hasConfig, mgrPc, mgrIndex, chainStatus, indexers,
                   dbsEnded, stopTarget, reported, lateWrite>>

\* stop(): await db.end() on the next pool
StopEndDb ==
    /\ stopPc = "closing"
    /\ StartSuspended
    /\ LET k == NextEntry(chainStatus, stopIndex) IN
         IF k = 0
         THEN /\ stopPc' = "done"
              /\ stopIndex' = 0
              /\ UNCHANGED dbsEnded
         ELSE /\ dbsEnded' = dbsEnded \cup {k}
              /\ stopIndex' = k
              /\ UNCHANGED stopPc
    /\ UNCHANGED <<nonManagerVars, hasConfig, mgrPc, mgrIndex, chainStatus, indexers,
                   healthMonitorTimer, stopTarget, reported, lateWrite>>

\* gracefulShutdown(): manager.stop() has returned: process.exit(0)
StopExit ==
    /\ stopPc = "done"
    /\ mgrPc # "exited"
    /\ mgrPc' = "exited"
    /\ UNCHANGED <<nonManagerVars, hasConfig, mgrIndex, chainStatus, indexers,
                   shutdownVars>>

ManagerNext ==
    \/ ManagerStart
    \/ InitializeChainSkip
    \/ InitializeChain
    \/ InitializeChainFail
    \/ StartHealthMonitoring
    \/ StartIndexerAbsent
    \/ StartIndexer
    \/ StartIndexerFail
    \/ \E c \in Chains : ChainLoopStop(c)
    \/ \E c \in Chains : ChainLoopBatch(c)
    \/ \E c \in Chains : ChainBatchRetry(c)
    \/ \E c \in Chains : ChainBackoffDone(c)
    \/ \E c \in Chains : ChainIterationEnd(c)
    \/ Signal
    \/ SignalCompiled
    \/ FatalShutdown
    \/ StopIndexer
    \/ StopIndexerPoll
    \/ StopCleanup
    \/ StopEndDb
    \/ StopExit

StandaloneManager ==
    /\ cfgStartBlock = 2
    /\ cfgBatchSize = 3
    /\ contractsDeployed = TRUE
    /\ endpointChain = "configured"
    /\ IndexerInit
    /\ ProviderInit
    /\ hasConfig \in [Chains -> BOOLEAN]
    /\ ManagerInit
    /\ MonitorInit
    /\ CacheInit
    /\ StoreInit

ManagerSpec == StandaloneManager /\ [][ManagerNext]_vars

----------------------------------------------------------------------------
(* IndexerHealthMonitor: checkAllChains() and checkChainHealth() *)

checkLocals == <<checkUrl, checkLatest, checkLatency, checkError>>

\* checkAllChains(): the loop moves to position next, the locals of the
\* checkChainHealth() call that has not run yet are reset
MoveTo(next) ==
    /\ checkPc' = next[1]
    /\ checkIndex' = next[2]
    /\ checked' = (IF next[2] = 0 THEN checked ELSE checked \cup {next[2]})
    /\ checkUrl' = "unknown"
    /\ checkLatest' = 0
    /\ checkLatency' = 0
    /\ checkError' = NoError

\* start() or the interval timer: checkAllChains() begins with the first chain
MonitorTick ==
    /\ checkPc \in {"new", "idle"}
    /\ checkPc' = "querying"
    /\ checkIndex' = 1
    /\ checked' = {1}
    /\ UNCHANGED <<indexerVars, poolVars, managerVars, cacheVars, storeVars, chainHealth,
                   lastIndexedBlocks, checkLocals>>

\* checkChainHealth(): getProvider() and getBlockNumber() return
CheckQuery ==
    /\ checkPc = "querying"
    /\ checkUrl' = Urls[1]
    /\ checkLatest' \in MonitorHeights
    /\ checkLatency' \in Latencies
    /\ checkPc' = "storing"
    /\ UNCHANGED <<indexerVars, poolVars, managerVars, cacheVars, storeVars, chainHealth,
                   lastIndexedBlocks, checkIndex, checkError, checked>>

\* checkChainHealth(): getProvider() or getBlockNumber() throws
CheckQueryFail ==
    /\ checkPc = "querying"
    /\ checkUrl' \in {"unknown", Urls[1]}
    /\ checkError' \in HealthErrors
    /\ checkPc' = "failing"
    /\ UNCHANGED <<indexerVars, poolVars, managerVars, cacheVars, storeVars, chainHealth,
                   lastIndexedBlocks, checkIndex, checkLatest, checkLatency, checked>>

\* checkChainHealth(): the watermark is read and the healthy row upserted
CheckStore ==
    /\ checkPc = "storing"
    /\ chainHealth' = UpdateChainHealth(chainHealth, checkIndex, TRUE, SqlNull,
                          <<BlocksBehind(checkLatest, lastIndexedBlocks[checkIndex])>>,
                          <<checkLatency>>, checkUrl)
    /\ MoveTo(NextCheck(checkIndex))
    /\ UNCHANGED <<indexerVars, poolVars, managerVars, cacheVars, storeVars, lastIndexedBlocks>>

\* checkChainHealth(): the SELECT or the upsert throws: the catch block
CheckStoreFail ==
    /\ checkPc = "storing"
    /\ checkError' \in HealthErrors
    /\ checkPc' = "failing"
    /\ UNCHANGED <<indexerVars, poolVars, managerVars, cacheVars, storeVars, chainHealth,
                   lastIndexedBlocks, checkIndex, checkUrl, checkLatest, checkLatency,
                   checked>>

\* checkChainHealth(), catch block: the unhealthy row is upserted
CheckFailureStore ==
    /\ checkPc = "failing"
    /\ chainHealth' = UpdateChainHealth(chainHealth, checkIndex, FALSE, <<checkError>>,
                          SqlNull, SqlNull, checkUrl)
    /\ MoveTo(NextCheck(checkIndex))
    /\ UNCHANGED <<indexerVars, poolVars, managerVars, cacheVars, storeVars, lastIndexedBlocks>>

\* checkChainHealth(), catch block: the upsert throws; checkAllChains() catches it
CheckFailureStoreFail ==
    /\ checkPc = "failing"
    /\ MoveTo(OnCheckThrown(checkIndex))
    /\ UNCHANGED <<indexerVars, poolVars, managerVars, cacheVars, storeVars, chainHealth,
                   lastIndexedBlocks>>

\* the indexer of chain c commits its watermark
IndexerWrites(c) ==
    /\ lastIndexedBlocks[c] = NULL
    /\ lastIndexedBlocks' = [lastIndexedBlocks EXCEPT ![c] = IndexedUpTo]
    /\ UNCHANGED <<indexerVars, poolVars, managerVars, cacheVars, storeVars, chainHealth, checkPc,
                   checkIndex, checkLocals, checked>>

MonitorNext ==
    \/ MonitorTick
    \/ CheckQuery
    \/ CheckQueryFail
    \/ CheckStore
    \/ CheckStoreFail
    \/ CheckFailureStore
    \/ CheckFailureStoreFail
    \/ \E c \in MonitoredChains : IndexerWrites(c)

\* the monitor of a process whose other components are as constructed
MonitorSpec == Standalone /\ [][MonitorNext]_vars

----------------------------------------------------------------------------
(* The block timestamp cache shared by the ChainIndexer instances *)

\* processEvents(): the row of chain c for block b gets block_timestamp ts,
\* unless a row with its transaction hash is there already
WriteRecord(c, b, ts) ==
    recordTimestamps' = [recordTimestamps EXCEPT ![c][b] =
                            IF @ = NoTimestamp THEN ts ELSE @]

\* getBlockTimestamp() of chain c: the cache has the block number
CacheHit(c, b) ==
    /\ blockTimestampCache[b] # NoTimestamp
    /\ WriteRecord(c, b, blockTimestampCache[b])
    /\ UNCHANGED <<indexerVars, poolVars, managerVars, monitorVars, storeVars, blockTimestampCache>>

\* getBlockTimestamp() of chain c: no entry: getBlock(), then the cache is set
CacheMiss(c, b) ==
    /\ blockTimestampCache[b] = NoTimestamp
    /\ \E found \in BOOLEAN :
         /\ blockTimestampCache' = [blockTimestampCache EXCEPT ![b] = TimestampOf(c, b, found)]
         /\ WriteRecord(c, b, TimestampOf(c, b, found))
    /\ UNCHANGED <<indexerVars, poolVars, managerVars, monitorVars, storeVars>>

\* the process is started again: the module is loaded anew, the tables remain
CacheRestart ==
    /\ blockTimestampCache' = [b \in CachedBlocks |-> NoTimestamp]
    /\ UNCHANGED <<indexerVars, poolVars, managerVars, monitorVars, storeVars, recordTimestamps>>

CacheNext ==
    \/ \E c \in Chains : \E b \in CachedBlocks : CacheHit(c, b)
    \/ \E c \in Chains : \E b \in CachedBlocks : CacheMiss(c, b)
    \/ CacheRestart

\* the cache of a process whose other components are as constructed
CacheSpec == Standalone /\ [][CacheNext]_vars

----------------------------------------------------------------------------
(* The storage a batch is persisted into: processEvents() *)

\* what processEvents() reads and writes
Stored ==
    [tables |-> tables, userStats |-> userStats, eventLogRows |-> eventLogRows,
     chainStatsRows |-> chainStatsRows]

StoreTo(db) ==
    /\ tables' = db.tables
    /\ userStats' = db.userStats
    /\ eventLogRows' = db.eventLogRows
    /\ chainStatsRows' = db.chainStatsRows

storeFrame == <<cfgVars, running, stopRequested, lastProcessedBlock, dbWatermark, pc,
                batchVars, stopVars, histVars, coverVars, validation, startIgnored,
                indexingPerformance, poolVars, managerVars, monitorVars, cacheVars>>

\* processBatch(from, to) fetched no log: processEvents() returns at once
ProcessEventsEmpty(from, to) ==
    /\ FetchEvents(from, to) = <<>>
    /\ txRange' = <<from, to>>
    /\ txOutcome' = "skipped"
    /\ StoreTo(Stored)
    /\ UNCHANGED storeFrame

\* processBatch(from, to) fetched logs: BEGIN, the statements, COMMIT
ProcessEventsCommit(from, to) ==
    /\ FetchEvents(from, to) # <<>>
    /\ chainStatsRows <= MaxCommits
    /\ txRange' = <<from, to>>
    /\ txOutcome' = "committed"
    /\ StoreTo(Transaction(Stored, FetchEvents(from, to), TxSteps))
    /\ UNCHANGED storeFrame

\* processBatch(from, to) fetched logs: BEGIN, a statement throws, ROLLBACK
ProcessEventsRollback(from, to) ==
    /\ FetchEvents(from, to) # <<>>
    /\ txRange' = <<from, to>>
    /\ txOutcome' = "rolledback"
    /\ \E k \in 0..(TxSteps - 1) :
         StoreTo(Rollback(Stored, Transaction(Stored, FetchEvents(from, to), k)))
    /\ UNCHANGED storeFrame

\* the ranges processBatch() is called with
BatchRanges == {r \in {1, 6, 12, 18} \X {5, 8, 21, 24} : r[1] <= r[2]}

StoreNext ==
    \/ \E r \in BatchRanges : ProcessEventsEmpty(r[1], r[2])
    \/ \E r \in BatchRanges : ProcessEventsCommit(r[1], r[2])
    \/ \E r \in BatchRanges : ProcessEventsRollback(r[1], r[2])

StoreSpec == Standalone /\ [][StoreNext]_vars

----------------------------------------------------------------------------
(* Properties *)

\* a batch is in flight: processBatch() has been called and has not returned
InBatch == pc \in {"batch", "backoff"}

\* the step is the process being killed and restarted (not a step of the indexer)
Killed == lastProcessedBlock # NULL /\ lastProcessedBlock' = NULL

\* C1: the persisted watermark (chains.last_indexed_block) never decreases,
\* except once per start(): only the first UPDATE committed after a start()
\* may lower it, by less than REORG_DEPTH blocks and never below the
\* configured start block.
C1_MonotonicWatermark ==
    [][dbWatermark' < dbWatermark =>
         /\ ~sessionWrites
         /\ dbWatermark' > dbWatermark - REORG_DEPTH
         /\ dbWatermark' >= cfgStartBlock]_vars

\* the first UPDATE after a restart has lowered the persisted watermark and a
\* later batch of the same run has been stored on top of it
C1_Witness ==
    /\ rewound
    /\ pc = "sleeping"
    /\ dbWatermark = lastProcessedBlock
    /\ dbWatermark < maxIndexed

\* the rows a variant's table must hold once blocks lo..hi have been indexed:
\* one row per transaction hash, the first log of that hash in the range
ExpectedRows(variant, lo, hi) ==
    LET InRange(i) == /\ VariantOf(ChainLog[i]) = variant
                      /\ ChainLog[i].blockNumber >= lo
                      /\ ChainLog[i].blockNumber <= hi
        First(i) == \A j \in 1..(i - 1) :
                      ~(InRange(j) /\ ChainLog[j].transactionHash = ChainLog[i].transactionHash)
    IN  {RowOf(ChainLog[i]) : i \in {k \in 1..Len(ChainLog) : InRange(k) /\ First(k)}}

\* C2: whatever ranges are replayed after restarts, every variant's table
\* holds at most one row per transaction hash and exactly the rows of the
\* first pass over the blocks indexed so far.
C2_ReplayIdempotent ==
    \A v \in Variants :
        /\ \A i, j \in 1..Len(tables[v]) :
              tables[v][i].tx_hash = tables[v][j].tx_hash => i = j
        /\ {tables[v][i] : i \in 1..Len(tables[v])} =
              ExpectedRows(v, cfgStartBlock + 1, maxIndexed)

\* a batch over blocks that were indexed before, containing records, has
\* been committed again without failing
C2_Witness ==
    /\ pc = "storing"
    /\ batchEnd < maxIndexed
    /\ \E v \in Variants : RowsFor(FetchEvents(batchStart, batchEnd), v) # <<>>

\* C3: after an iteration failed while fetching or persisting its batch, the
\* in-memory watermark is where it was before the batch, and the next
\* attempt starts at the first block of the failed range.
C3_FailureKeepsWatermark ==
    (failedRange # NoRange /\ pc \in {"sleeping", "batch", "backoff"}) =>
        /\ lastProcessedBlock = failedRange[1] - 1
        /\ (pc # "sleeping" => batchStart = failedRange[1])

\* C4: a batch that follows another batch of the same run is in flight only
\* when the previous batch's watermark advance is in storage.
C4_SequentialBatches ==
    (InBatch /\ sessionBatches) => dbWatermark = batchStart - 1

\* C5: the batch in flight is [w + 1, min(w + batchSize, height)] for the
\* watermark w and the height read by the iteration, and never ends beyond
\* that height.
C5_BatchBoundary ==
    InBatch =>
        /\ latestBlock > lastProcessedBlock
        /\ batchStart = lastProcessedBlock + 1
        /\ batchEnd = (IF lastProcessedBlock + cfgBatchSize < latestBlock
                       THEN lastProcessedBlock + cfgBatchSize
                       ELSE latestBlock)
        /\ batchEnd <= latestBlock

\* a height-capped batch: the watermark plus the batch size lies beyond the height
C5_Witness ==
    /\ pc = "batch"
    /\ lastProcessedBlock + cfgBatchSize > latestBlock
    /\ batchEnd = latestBlock

\* C6: when start() finds a persisted watermark W it sets the in-memory
\* watermark to W - REORG_DEPTH, or to the configured start block when that
\* is higher.
C6_ResumeRewind ==
    (pc = "loop" /\ dbWatermark # NULL) =>
        lastProcessedBlock = (IF dbWatermark - REORG_DEPTH > cfgStartBlock
                              THEN dbWatermark - REORG_DEPTH
                              ELSE cfgStartBlock)

\* start() has rewound a persisted watermark by the full depth
C6_Witness ==
    /\ pc = "loop"
    /\ dbWatermark # NULL
    /\ dbWatermark - REORG_DEPTH > cfgStartBlock
    /\ lastProcessedBlock = dbWatermark - REORG_DEPTH

\* C7: with no persisted watermark, the first batch after start() starts at
\* the configured start block.
C7_FirstBatchAtStartBlock ==
    (InBatch /\ ~sessionBatches /\ dbWatermark = NULL) => batchStart = cfgStartBlock

\* the logs of blocks from..to that produce an Event Record
MatchingEvents(from, to) ==
    {i \in 1..Len(ChainLog) :
        /\ ChainLog[i].blockNumber >= from
        /\ ChainLog[i].blockNumber <= to
        /\ \/ ChainLog[i].eventName = "Transfer" /\ ChainLog[i].to = "xburnMinter"
           \/ ChainLog[i].eventName \in {"BurnLockCreated", "SwapAndBurn", "LiquidityAdded"}}

\* C8: a batch with zero matching events writes no Event Record and advances
\* the in-memory watermark to the batch end, and the UPDATE that follows a
\* batch stores the batch end.
C8_EmptyBatchAdvances ==
    /\ [][(pc = "batch" /\ pc' = "storing" /\ MatchingEvents(batchStart, batchEnd) = {}) =>
            /\ tables' = tables
            /\ lastProcessedBlock' = batchEnd]_vars
    /\ [][(pc = "storing" /\ dbWatermark' # dbWatermark) => dbWatermark' = batchEnd]_vars

\* a batch whose only log does not qualify has been processed and the
\* watermark advanced over it
C8_Witness ==
    /\ pc = "storing"
    /\ MatchingEvents(batchStart, batchEnd) = {}
    /\ FetchEvents(batchStart, batchEnd) # <<>>
    /\ lastProcessedBlock = batchEnd

\* C9: while no stop is requested the loop never ends by itself: a batch
\* that fails for good (retries exhausted or not transient) leaves the
\* indexer running with the timer armed and both watermarks unadvanced.
C9_NeverGivesUp ==
    /\ [][(pc \in {"loop", "sleeping", "querying", "batch", "backoff", "storing"}
             /\ ~stopRequested /\ ~Killed) =>
            (running' /\ pc' # "idle")]_vars
    /\ [][(pc = "batch" /\ pc' \notin {"batch", "backoff", "storing"} /\ ~Killed) =>
            /\ pc' = "sleeping"
            /\ running'
            /\ lastProcessedBlock' = lastProcessedBlock
            /\ dbWatermark' = dbWatermark]_vars

\* the retries of a batch were exhausted, the loop paused and is running
C9_Witness ==
    /\ pc = "sleeping"
    /\ running
    /\ ~stopRequested
    /\ failedRange # NoRange
    /\ retryCount = MAX_RETRIES

\* C10: a failed batch is retried with backoff at most the configured retry
\* ceiling (indexerConfig.maxRetries) times within one loop iteration.
C10_ConfiguredCeiling ==
    retryCount <= ConfigMaxRetries

\* C11: the delay of the backoff sleep before retry k + 1 is
\* min(retryDelay * 2^k, maxBackoffDelay), and never above maxBackoffDelay.
C11_BackoffDelay ==
    pc = "backoff" =>
        /\ delay = (IF retryDelay * 2 ^ retryCount < maxBackoffDelay
                    THEN retryDelay * 2 ^ retryCount
                    ELSE maxBackoffDelay)
        /\ delay <= maxBackoffDelay

\* a backoff sleep whose doubled delay lies above the cap and is cut to it
C11_Witness ==
    /\ pc = "backoff"
    /\ retryDelay * 2 ^ retryCount > maxBackoffDelay
    /\ delay = maxBackoffDelay

C13_StopInterruptsSleeps ==
    [][(stopRequested /\ pc \in {"sleeping", "backoff"}) =>
          pc' \notin {"querying", "batch"}]_vars

----------------------------------------------------------------------------
(* Properties of the endpoint pool *)

\* the step ends a probe of url number i
ProbeEnds(i) == rounds'[i] = rounds[i] - 1

\* the index of a url in rpcUrls
\* the endpoints other than the active one that are marked healthy
OtherHealthy == {url \in UrlSet : url # currentProviderUrl /\ providerHealth[url].isHealthy}

\* C14: the pool always has exactly one active endpoint, it is one of the
\* configured urls, and it is the first of them until the first switch.
C14_OneActiveEndpoint ==
    /\ Cardinality({url \in UrlSet : url = currentProviderUrl}) = 1
    /\ ~switched => currentProviderUrl = Urls[1]

\* after a switch every endpoint, the active one included, has failed its
\* last probe, and the pool still has its active endpoint
C14_Witness ==
    /\ switched
    /\ currentProviderUrl # Urls[1]
    /\ \A url \in UrlSet : ~providerHealth[url].isHealthy

\* C15: the active endpoint changes only in a step that ends a failed probe
\* of the active endpoint whose error is a transient infrastructure fault or
\* whose failure count has reached the retry ceiling, and only when the
\* minimum switch interval has elapsed since the last switch; a step that
\* ends a successful probe or a probe of another endpoint leaves it alone.
C15_SwitchOnlyOnActiveFailure ==
    /\ [][currentProviderUrl' # currentProviderUrl =>
            /\ ProbeEnds(CHOOSE i \in 1..Len(Urls) : Urls[i] = currentProviderUrl)
            /\ lastError' # NoError
            /\ \/ lastError' \cap {"rate limit", "too many requests", "exceeded",
                                         "timeout", "econnrefused", "ECONNREFUSED",
                                         "network error"} # {}
               \/ providerHealth'[currentProviderUrl].failureCount >= ConfigMaxRetries
            /\ sinceSwitch >= minProviderSwitchInterval]_vars
    /\ [][(\E i \in 1..Len(Urls) :
              /\ ProbeEnds(i)
              /\ (lastError' = NoError \/ Urls[i] # currentProviderUrl))
            => currentProviderUrl' = currentProviderUrl]_vars

\* the first url has just been left on a failure that is not a transient
\* infrastructure fault, at the retry ceiling
C15_Witness ==
    /\ sinceSwitch = 0
    /\ currentProviderUrl # Urls[1]
    /\ lastError = {}
    /\ providerHealth[Urls[1]].failureCount = ConfigMaxRetries
    /\ \A url \in UrlSet \ {Urls[1]} : providerHealth[url].isHealthy

\* C16: a switch happens only when at least minProviderSwitchInterval has
\* elapsed since the previous switch, and restarts that interval.
C16_SwitchesDebounced ==
    [][currentProviderUrl' # currentProviderUrl =>
          /\ sinceSwitch >= minProviderSwitchInterval
          /\ sinceSwitch' = 0]_vars

\* within the interval after a switch the last probe, of the new active
\* endpoint, has failed with a transient fault; every other endpoint is
\* healthy, and the active endpoint is the same
C16_Witness ==
    /\ switched
    /\ sinceSwitch < minProviderSwitchInterval
    /\ lastError = {"ECONNREFUSED"}
    /\ providerHealth[currentProviderUrl].failureCount = 1
    /\ \A url \in UrlSet \ {currentProviderUrl} : providerHealth[url].isHealthy

\* C17: a switch selects an endpoint that is marked healthy and whose
\* recorded latency is the lowest among the healthy endpoints other than the
\* one that failed.
C17_LowestLatencyHealthy ==
    [][currentProviderUrl' # currentProviderUrl =>
          /\ providerHealth[currentProviderUrl'].isHealthy
          /\ providerHealth'[currentProviderUrl'].isHealthy
          /\ \A url \in OtherHealthy :
                providerHealth[currentProviderUrl'].latency <= providerHealth[url].latency]_vars

\* the pool has just switched from the first url to the third, which is
\* faster than the second, healthy one
C17_Witness ==
    /\ sinceSwitch = 0
    /\ lastError = {"ECONNREFUSED"}
    /\ providerHealth[Urls[1]].failureCount = 1
    /\ currentProviderUrl = Urls[3]
    /\ providerHealth[Urls[3]].isHealthy
    /\ providerHealth[Urls[2]].isHealthy
    /\ providerHealth[Urls[3]].latency < providerHealth[Urls[2]].latency

\* C18: while no endpoint other than the active one is marked healthy, no
\* step changes the active endpoint.
C18_NoHealthyAlternative ==
    [][OtherHealthy = {} => currentProviderUrl' = currentProviderUrl]_vars

\* the first url, measured at 50 ms, has failed up to the retry ceiling
\* while no other endpoint is healthy, and the pool has never switched
C18_Witness ==
    /\ ~switched
    /\ providerHealth[currentProviderUrl].failureCount = ConfigMaxRetries
    /\ providerHealth[currentProviderUrl].latency = 50
    /\ OtherHealthy = {}
    /\ sinceSwitch = minProviderSwitchInterval

\* C19: the pool does not stay for ever on an active endpoint that keeps
\* failing its probes while another endpoint stays healthy.
C19_AutomaticFailover ==
    \A url \in UrlSet :
        ~<>[](/\ currentProviderUrl = url
              /\ ~providerHealth[url].isHealthy
              /\ OtherHealthy # {})

\* the active endpoint failed its last probe, another endpoint is healthy,
\* and the pool has moved to a healthy endpoint before
C19_Witness ==
    /\ switched
    /\ ~providerHealth[Urls[1]].isHealthy
    /\ providerHealth[Urls[1]].failureCount = ConfigMaxRetries
    /\ providerHealth[currentProviderUrl].isHealthy
    /\ currentProviderUrl # Urls[1]

----------------------------------------------------------------------------
(* Properties of IndexerManager.start() *)

\* the chains whose initialization or start has thrown
FailedChains == {c \in Chains : chainStatus[c] \in {"initFailed", "startFailed"}}

C21_ChainsIndependent ==
    \A c \in Chains : \A d \in Chains \ {c} :
        (InStart(c) /\ indexers[c].phase \in {"batch", "backoff"}) =>
            ~(chainStatus[d] = "initialized" /\ indexers[d].phase = "idle")

----------------------------------------------------------------------------
(* Properties of IndexerManager.stop() and the signal handlers *)

C23_SignalStopsLiveManager ==
    mgrPc = "exited" =>
        /\ stopTarget = "live"
        /\ \A c \in Chains : ~indexers[c].running

----------------------------------------------------------------------------
(* Properties of ChainIndexer.start() and processEvents() *)

\* C24 as stated: a start() that meets an invalid contract address, a chain id
\* mismatch or a start block beyond the height fails: it never enters the
\* indexing loop.
C24_ConfigFaultFailsStart ==
    [][(/\ pc = "starting"
        /\ \/ cfgStartBlock > validation
           \/ ~contractsDeployed
           \/ endpointChain # "configured") => pc' # "loop"]_vars

\* C25: a start() that finds the indexer running changes nothing; and while
\* the indexer stays running no step clears a pending stop request, takes
\* the loop back into start(), or moves the in-memory watermark outside a
\* batch.
C25_StartWhileRunningIsNoOp ==
    [][/\ (startIgnored' /\ ~startIgnored) =>
              UNCHANGED <<running, stopRequested, lastProcessedBlock, dbWatermark, tables, pc,
                          batchVars, stopVars>>
       /\ (running /\ running') =>
              /\ stopRequested => stopRequested'
              /\ pc # "starting" => pc' # "starting"
              /\ pc \notin {"starting", "batch"} => lastProcessedBlock' = lastProcessedBlock
      ]_vars

\* start() was called on a running indexer that has a stop request pending
\* and a persisted watermark a fresh start would rewind
C25_Witness ==
    /\ startIgnored
    /\ running
    /\ stopRequested
    /\ pc = "sleeping"
    /\ dbWatermark # NULL
    /\ lastProcessedBlock > ResumeBlock(cfgStartBlock, dbWatermark)

\* the rows of a table with the transaction hash tx
CountTx(table, tx) == Cardinality({i \in 1..Len(table) : table[i].tx_hash = tx})

\* C26: a committed batch leaves every row that was stored in place, and
\* each of its records has exactly one row with its transaction hash in the
\* table of its own variant, whatever the other variants' tables hold.
C26_SharedHashPerVariant ==
    [][(pc = "batch" /\ pc' = "storing") =>
          \A v \in Variants :
              /\ SubSeq(tables'[v], 1, Len(tables[v])) = tables[v]
              /\ \A i \in 1..Len(ChainLog) :
                    ( /\ ChainLog[i].blockNumber >= batchStart
                      /\ ChainLog[i].blockNumber <= batchEnd
                      /\ VariantOf(ChainLog[i]) = v ) =>
                        CountTx(tables'[v], ChainLog[i].transactionHash) = 1
      ]_vars

\* the batch holding the Burn and the SwapAndBurn of transaction 0xa3 has been
\* committed a second time: both rows are there, the second pair was dropped
C26_Witness ==
    /\ pc = "storing"
    /\ batchStart <= 11
    /\ batchEnd >= 11
    /\ batchEnd < maxIndexed
    /\ CountTx(tables["xen_burns"], "0xa3") = 1
    /\ CountTx(tables["swap_burns"], "0xa3") = 1

\* C29 as stated: a batch that produced records and was committed has written
\* exactly one row of indexing_performance.
C29_BatchRecordWritten ==
    [][( /\ pc = "batch"
         /\ pc' = "storing"
         /\ \E v \in Variants : RowsFor(FetchEvents(batchStart, batchEnd), v) # <<>> ) =>
            Len(indexingPerformance') = Len(indexingPerformance) + 1
      ]_vars

----------------------------------------------------------------------------
(* Properties of the Health Monitor *)

\* C27: a health check upserts the chain's row by its outcome: after a
\* successful check healthy, without error message, with blocks_behind the
\* height read minus the persisted watermark (minus 0 when there is none)
\* and the latency measured; after a failed check unhealthy, with the error
\* message, blocks_behind and the latency NULL. No other step writes a row.
C27_SnapshotByOutcome ==
    [][chainHealth' # chainHealth =>
          /\ \A c \in MonitoredChains \ {checkIndex} : chainHealth'[c] = chainHealth[c]
          /\ checkPc = "storing" =>
                /\ chainHealth'[checkIndex].is_healthy
                /\ chainHealth'[checkIndex].error_message = SqlNull
                /\ chainHealth'[checkIndex].blocks_behind =
                      <<checkLatest - (IF lastIndexedBlocks[checkIndex] = NULL THEN 0
                                       ELSE lastIndexedBlocks[checkIndex])>>
                /\ chainHealth'[checkIndex].rpc_latency_ms = <<checkLatency>>
          /\ checkPc = "failing" =>
                /\ ~chainHealth'[checkIndex].is_healthy
                /\ chainHealth'[checkIndex].error_message = <<checkError>>
                /\ chainHealth'[checkIndex].blocks_behind = SqlNull
                /\ chainHealth'[checkIndex].rpc_latency_ms = SqlNull
          /\ checkPc \in {"storing", "failing"}
      ]_vars

\* one chain's row is healthy and holds the distance to a persisted
\* watermark, the other chain's row is unhealthy with the NULL fields
C27_Witness ==
    /\ lastIndexedBlocks[1] = IndexedUpTo
    /\ chainHealth[1].is_healthy
    /\ chainHealth[1].blocks_behind = <<MaxHeight - IndexedUpTo>>
    /\ chainHealth[2].error_message = <<"timeout">>
    /\ chainHealth[2].blocks_behind = SqlNull

\* C28: within a tick checkChainHealth() is called on every chain in turn,
\* whatever the checks of the chains before it ended in: when the tick is
\* over, every chain has been checked.
C28_FailureDoesNotSkip ==
    /\ checkPc = "idle" => checked = MonitoredChains
    /\ checkPc \in {"querying", "storing", "failing"} => checked = 1..checkIndex

\* a tick is over in which the check of the first chain failed and the
\* upsert of its unhealthy row threw, and the second chain's row was written
C28_Witness ==
    /\ checkPc = "idle"
    /\ chainHealth[1] = NoRow
    /\ chainHealth[2] # NoRow

----------------------------------------------------------------------------
(* Properties of the block timestamp cache *)

\* C30 as stated: the block timestamp of a record, when it was taken from a
\* block, is the timestamp of that block number on the record's own chain.
C30_OwnChainTimestamp ==
    \A c \in Chains : \A b \in CachedBlocks :
        recordTimestamps[c][b] \notin {NoTimestamp, Now} =>
            recordTimestamps[c][b] = ChainTime(c, b)

----------------------------------------------------------------------------
(* Properties of the indexer's use of the endpoint pool and of its pacing *)

\* C32 as stated: when a live query of the indexer fails with a transient
\* endpoint error (the batch goes to its backoff), the pool's switch
\* evaluation runs for the active endpoint: the active endpoint becomes what
\* switchProvider() selects.
C32_LiveFailureEvaluated ==
    [][(pc = "batch" /\ pc' = "backoff") =>
          currentProviderUrl' =
              switchProvider(providerHealth, currentProviderUrl, sinceSwitch)]_vars

\* C33 as stated: the indexer's retry classification and the pool's switch
\* classification agree on every error message.
C33_SameClassification ==
    lastError # NoError => (ShouldRetry(lastError) <=> shouldSwitchProvider(lastError))

\* C35 as stated: after a batch's watermark is stored the loop waits for the
\* poll interval only when the stored watermark has reached the height the
\* iteration read.
C35_SleepOnlyWhenCaughtUp ==
    [][(pc = "storing" /\ pc' = "sleeping" /\ failedRange' = NoRange) =>
          batchEnd >= latestBlock]_vars

----------------------------------------------------------------------------
(* Properties of the loop's uniqueness and of the coverage of the blocks *)

\* C37: whatever start() and stop() calls are made on an indexer, at most
\* one indexing loop is alive at a time (exactly one while an iteration is
\* in flight or a timer is pending), so no two batches are in flight at once.
C37_SingleLoop ==
    /\ loops <= 1
    /\ pc \in {"loop", "querying", "batch", "backoff", "storing", "sleeping"} => loops = 1

\* start() was called again on an indexer that a stop() call is still
\* polling, and the one loop it started has a batch in flight
C37_Witness ==
    /\ stopCaller = "polling"
    /\ ~stopRequested
    /\ pc = "batch"
    /\ loops = 1

\* C39: every block from the first block scanned since start() up to the
\* persisted watermark lies in a batch that completed, and each batch of a
\* run starts at the block after the previous batch's last block.
C39_NoGap ==
    /\ [](firstScanned # NULL =>
             \A b \in firstScanned..dbWatermark : b \in covered)
    /\ [][(pc = "querying" /\ pc' = "batch" /\ prevEnd # NULL) =>
             batchStart' = prevEnd + 1]_vars

\* a run that resumed below the persisted watermark has stored a batch, had
\* a later batch fail, and has the batch after the stored one in flight
C39_Witness ==
    /\ pc = "batch"
    /\ firstScanned # NULL
    /\ prevEnd # NULL
    /\ failedRange # NoRange
    /\ sessionWrites
    /\ dbWatermark > firstScanned
    /\ maxIndexed > dbWatermark

----------------------------------------------------------------------------
(* Properties of the persistence of a batch *)

\* C31: a call of processEvents() either commits the whole transaction
\* (every row of the batch, every user total, the log rows and the chain
\* statistics) or leaves the storage exactly as it was.
C31_AtomicBatch ==
    [][LET events == FetchEvents(txRange'[1], txRange'[2])
       IN  /\ txOutcome' = "committed" =>
                 Stored' = Transaction(Stored, events, TxSteps)
           /\ txOutcome' # "committed" => Stored' = Stored]_vars

\* after a batch was committed, a batch holding a Burn and a Swap-Burn failed
\* inside its transaction and none of its rows is in storage
C31_Witness ==
    /\ txOutcome = "rolledback"
    /\ txRange = <<6, 21>>
    /\ chainStatsRows > 1
    /\ tables["swap_burns"] = <<>>
    /\ \A i \in 1..Len(tables["xen_burns"]) : tables["xen_burns"][i].tx_hash # "0xa3"

\* the sum of the amount column of stored rows
RECURSIVE SumAmounts(_)
SumAmounts(rows) ==
    IF rows = <<>> THEN 0 ELSE 10 * Head(rows).block_number + SumAmounts(Tail(rows))

RowsOf(variant, u) == SelectSeq(tables[variant], LAMBDA r : r.user = u)

\* C34 as stated: every user's derived totals equal the aggregate over that
\* user's persisted Event Records.
C34_TotalsMatchRecords ==
    \A u \in Users : userStats[u] =
        [total_xen_burned   |-> SumAmounts(RowsOf("xen_burns", u)),
         burn_count         |-> Len(RowsOf("xen_burns", u)),
         nft_position_count |-> Len(RowsOf("burn_nft_positions", u)),
         total_xen_locked   |-> SumAmounts(RowsOf("burn_nft_positions", u)),
         swap_burn_count    |-> Len(RowsOf("swap_burns", u)),
         total_xen_swapped  |-> SumAmounts(RowsOf("swap_burns", u))]

\* C36 as stated: a batch that produces no Event Record opens no transaction
\* and writes nothing.
C36_NoRecordsNoWrites ==
    [][(\A v \in Variants : RowsFor(FetchEvents(txRange'[1], txRange'[2]), v) = <<>>) =>
          (txOutcome' = "skipped" /\ Stored' = Stored)]_vars

----------------------------------------------------------------------------
(* Termination of stop() and progress of the loop *)

\* C38 as stated: every stop() call that waits for the loop eventually
\* returns, also when start() is called again while it is polling.
C38_StopReturns == (stopCaller = "polling") ~> (stopCaller # "polling")

\* C40 as stated: once queries and storage operations succeed and stop() is
\* not called, the persisted watermark of the running indexer eventually
\* reaches the chain height the loop observed.
C40_Progress == stable ~> (observed > 0 /\ dbWatermark >= observed)

====
